---------------------------- MODULE Spec2Model ----------------------------
(***************************************************************************)
(* The hand-rolled JSON event parser of git-hub-user-activity              *)
(* (src/git-hub-user-activity/src/parser.rs) and the function that feeds   *)
(* it, fetch_user_events (src/git-hub-user-activity/src/api.rs).           *)
(*                                                                         *)
(* A Rust &str is modelled as a sequence of characters.  A character is a  *)
(* one-character TLA+ string, except the characters that take two bytes in *)
(* UTF-8, which are written by their code point ("U+00E9").  Rust indexes  *)
(* from 0 and TLA+ from 1: the definitions keep the 0-based positions of   *)
(* the source in their names and add 1 where a sequence is read.           *)
(***************************************************************************)
EXTENDS Integers, Sequences, FiniteSets, TLC

\* ------------------------------------------------------------------ bounds

\* Width of usize in bits.  usize is pointer-sized; the model keeps the
\* checked arithmetic of str::parse and scales the width down.
UsizeBits == 16

\* Largest number of array elements in a generated response body.
MaxObjects == 2

\* Longest tail of free characters in the inputs of the field extractors.
MaxTail == 4

\* ------------------------------------------------------------- characters

Q == "\""
BS == "\\"

\* Two-byte characters: e-acute, ARABIC-INDIC DIGIT THREE, NO-BREAK SPACE.
EACUTE == "U+00E9"
ARABIC3 == "U+0663"
NBSP == "U+00A0"

AsciiDigits == <<"0", "1", "2", "3", "4", "5", "6", "7", "8", "9">>

len_utf8(ch) == IF ch \in {EACUTE, ARABIC3, NBSP} THEN 2 ELSE 1

is_whitespace(ch) == ch \in {" ", "\t", "\n", "\r", NBSP}

IsAsciiDigit(ch) == \E d \in 1..10 : AsciiDigits[d] = ch

is_numeric(ch) == IsAsciiDigit(ch) \/ ch = ARABIC3

to_digit(ch) == (CHOOSE d \in 1..10 : AsciiDigits[d] = ch) - 1

\* --------------------------------------------------------- Option / Result

None == [tag |-> "None"]
Some(v) == [tag |-> "Some", val |-> v]
Panic == [tag |-> "Panic"]
Ok(v) == [tag |-> "Ok", val |-> v]
Err(m) == [tag |-> "Err", msg |-> m]

\* ------------------------------------------------------------ str methods

\* str::len: the sum of len_utf8 over the characters.
byte_len(s) ==
    LET count(n) == Cardinality({i \in 1..Len(s) : len_utf8(s[i]) = n})
    IN count(1) + 2 * count(2) + 3 * count(3) + 4 * count(4)

\* The first 0-based position at or after i of a character of set, or the
\* length of chars when there is none: a loop that acts only on the
\* characters of set moves from one such position to the next.
next_of(chars, i, set) ==
    LET hits == {j \in i..(Len(chars) - 1) : chars[j + 1] \in set}
    IN IF hits = {} THEN Len(chars)
       ELSE CHOOSE j \in hits : \A k \in hits : j <= k

Prefix(s, n) == SubSeq(s, 1, n)
Suffix(s, n) == SubSeq(s, n + 1, Len(s))

starts_with(s, ch) == Len(s) > 0 /\ s[1] = ch
ends_with(s, ch) == Len(s) > 0 /\ s[Len(s)] = ch

RECURSIVE trim_start(_)
trim_start(s) ==
    IF s # <<>> /\ is_whitespace(Head(s)) THEN trim_start(Tail(s)) ELSE s

RECURSIVE trim_end(_)
trim_end(s) ==
    IF s # <<>> /\ is_whitespace(s[Len(s)])
    THEN trim_end(Prefix(s, Len(s) - 1))
    ELSE s

\* The text as it is, for a caller that does not trim.
trim_none(s) == s

trim(s) == trim_end(trim_start(s))

\* str::find: the number of characters before the first occurrence of pat,
\* or -1 when there is none.
find(s, pat) ==
    LET hits == {i \in 0..(Len(s) - Len(pat)) :
                     SubSeq(s, i + 1, i + Len(pat)) = pat}
    IN IF hits = {} THEN -1
       ELSE CHOOSE i \in hits : \A j \in hits : i <= j

\* &s[from..to] with byte offsets: panics unless both are character
\* boundaries of s with from <= to.  The byte offset of the boundary after
\* k characters is k plus the bytes the wide characters among them add.
byte_slice(s, from, to) ==
    LET wide == {i \in 1..Len(s) : len_utf8(s[i]) > 1}
        offset(k) ==
            k + Cardinality({i \in wide : i <= k /\ len_utf8(s[i]) >= 2})
              + Cardinality({i \in wide : i <= k /\ len_utf8(s[i]) >= 3})
              + Cardinality({i \in wide : i <= k /\ len_utf8(s[i]) >= 4})
        chars_before(b) == {k \in 0..Len(s) : k <= b /\ offset(k) = b}
    IN IF from <= to /\ chars_before(from) # {} /\ chars_before(to) # {}
       THEN Some(SubSeq(s, (CHOOSE k \in chars_before(from) : TRUE) + 1,
                           CHOOSE k \in chars_before(to) : TRUE))
       ELSE Panic

\* ------------------------------------------------------------- str::parse

USIZE_MAX == 2 ^ UsizeBits - 1

\* The same conversion with arithmetic that wraps instead of checking.
RECURSIVE from_str_wrapping(_, _)
from_str_wrapping(digits, acc) ==
    IF digits = <<>> THEN Some(acc)
    ELSE IF ~IsAsciiDigit(Head(digits)) THEN None
    ELSE from_str_wrapping(Tail(digits),
                           (acc * 10 + to_digit(Head(digits))) % (USIZE_MAX + 1))

\* usize::from_str on a non-empty run: every character must be an ASCII
\* digit, and the multiplication and the addition are checked.
RECURSIVE from_str(_, _)
from_str(digits, acc) ==
    IF digits = <<>> THEN Some(acc)
    ELSE IF ~IsAsciiDigit(Head(digits)) THEN None
    ELSE LET d == to_digit(Head(digits))
         IN IF acc > (USIZE_MAX - d) \div 10 THEN None
            ELSE from_str(Tail(digits), acc * 10 + d)

\* ------------------------------------------------------- field extractors

pattern(key) == <<Q>> \o key \o <<Q, ":">>

\* The text after the first "key": with leading whitespace removed.
after_colon(json, key) ==
    trim_start(Suffix(json, find(json, pattern(key)) + Len(pattern(key))))

RECURSIVE numeric_run(_)
numeric_run(s) ==
    IF s # <<>> /\ is_numeric(Head(s))
    THEN <<Head(s)>> \o numeric_run(Tail(s))
    ELSE <<>>

extract_number_value(json, key) ==
    IF find(json, pattern(key)) = -1 THEN None
    ELSE LET ac == after_colon(json, key)
             end_pos == byte_len(numeric_run(ac))
         IN IF end_pos = 0 THEN None
            ELSE LET run == byte_slice(ac, 0, end_pos)
                 IN IF run.tag = "Panic" THEN Panic
                    ELSE from_str(run.val, 0)

\* The position of the next quote, escaped or not.
closing_quote_unescaped(chars, end_pos) == next_of(chars, end_pos, {Q})

\* The while loop of extract_string_value: end_pos is a 0-based position in
\* chars, and the loop stops at a quote whose predecessor is no backslash.
RECURSIVE closing_quote(_, _)
closing_quote(chars, end_pos) ==
    LET q == next_of(chars, end_pos, {Q})
    IN IF q >= Len(chars) THEN q
       ELSE IF chars[q] # BS THEN q
       ELSE closing_quote(chars, q + 1)

extract_string_value(json, key) ==
    IF find(json, pattern(key)) = -1 THEN None
    ELSE LET chars == after_colon(json, key)
             value_start == 1
         IN IF ~starts_with(chars, Q) THEN None
            ELSE Some(SubSeq(chars, value_start + 1,
                             closing_quote(chars, value_start)))

\* The for loop of extract_nested_object over chars().enumerate(), from
\* the 0-based character position from at the given depth: the position after
\* the closing brace that brings the depth to 0, or 0.
RECURSIVE matching_brace(_, _, _)
matching_brace(chars, from, depth) ==
    LET i == next_of(chars, from, {"{", "}"})
    IN IF i >= Len(chars) THEN 0
       ELSE IF chars[i + 1] = "{" THEN matching_brace(chars, i + 1, depth + 1)
       ELSE IF depth - 1 = 0 THEN i + 1
       ELSE matching_brace(chars, i + 1, depth - 1)

extract_nested_object(json, key) ==
    IF find(json, pattern(key)) = -1 THEN None
    ELSE LET ac == after_colon(json, key)
         IN IF ~starts_with(ac, "{") THEN None
            ELSE LET end_pos == matching_brace(ac, 0, 0)
                 IN IF end_pos = 0 THEN None
                    ELSE byte_slice(ac, 0, end_pos)

\* The for loop of extract_array_length over chars(), from the 0-based
\* character position from, and the return that follows it: nesting is the
\* loop's depth counter.
RECURSIVE array_loop(_, _, _, _, _)
array_loop(chars, from, nesting, count, in_array) ==
    LET i == next_of(chars, from, {"[", "]", "{", "}"})
    IN IF i >= Len(chars) THEN IF in_array THEN Some(count) ELSE None
       ELSE IF chars[i + 1] = "["
            THEN array_loop(chars, i + 1, nesting + 1, count, TRUE)
       ELSE IF chars[i + 1] = "]"
            THEN IF nesting - 1 = 0
                 THEN IF in_array THEN Some(count) ELSE None
                 ELSE array_loop(chars, i + 1, nesting - 1, count, in_array)
       ELSE IF chars[i + 1] = "{"
            THEN array_loop(chars, i + 1, nesting + 1,
                            IF nesting + 1 = 2 THEN count + 1 ELSE count,
                            in_array)
       ELSE array_loop(chars, i + 1, nesting - 1, count, in_array)

extract_array_length(json, key) ==
    IF find(json, pattern(key)) = -1 THEN None
    ELSE LET ac == after_colon(json, key)
         IN IF ~starts_with(ac, "[") THEN None
            ELSE array_loop(ac, 0, 0, 0, FALSE)

\* ------------------------------------------------------------ string data

T_PushEvent == <<"P", "u", "s", "h", "E", "v", "e", "n", "t">>
T_IssuesEvent == <<"I", "s", "s", "u", "e", "s", "E", "v", "e", "n", "t">>
T_PullRequestEvent == <<"P", "u", "l", "l", "R", "e", "q", "u", "e", "s",
    "t", "E", "v", "e", "n", "t">>
T_WatchEvent == <<"W", "a", "t", "c", "h", "E", "v", "e", "n", "t">>
T_ForkEvent == <<"F", "o", "r", "k", "E", "v", "e", "n", "t">>
T_CreateEvent == <<"C", "r", "e", "a", "t", "e", "E", "v", "e", "n", "t">>
T_DeleteEvent == <<"D", "e", "l", "e", "t", "e", "E", "v", "e", "n", "t">>
T_ReleaseEvent == <<"R", "e", "l", "e", "a", "s", "e", "E", "v", "e", "n",
    "t">>
T_IssueCommentEvent == <<"I", "s", "s", "u", "e", "C", "o", "m", "m", "e",
    "n", "t", "E", "v", "e", "n", "t">>
T_PullRequestReviewCommentEvent == <<"P", "u", "l", "l", "R", "e", "q", "u",
    "e", "s", "t", "R", "e", "v", "i", "e", "w", "C", "o", "m", "m", "e",
    "n", "t", "E", "v", "e", "n", "t">>
T_CommitCommentEvent == <<"C", "o", "m", "m", "i", "t", "C", "o", "m", "m",
    "e", "n", "t", "E", "v", "e", "n", "t">>

K_type == <<"t", "y", "p", "e">>
K_repo == <<"r", "e", "p", "o">>
K_name == <<"n", "a", "m", "e">>
K_payload == <<"p", "a", "y", "l", "o", "a", "d">>
K_size == <<"s", "i", "z", "e">>
K_action == <<"a", "c", "t", "i", "o", "n">>
K_ref_type == <<"r", "e", "f", "_", "t", "y", "p", "e">>

T_unknown == <<"u", "n", "k", "n", "o", "w", "n">>
T_published == <<"p", "u", "b", "l", "i", "s", "h", "e", "d">>

\* --------------------------------------------------------- record assembly

\* extract_nested_object(json_obj, "payload").unwrap_or("")
payload_obj(json_obj) ==
    LET o == extract_nested_object(json_obj, K_payload)
    IN IF o.tag = "None" THEN Some(<<>>) ELSE o

unwrap_or(opt, default) == IF opt.tag = "Some" THEN opt.val ELSE default

push_payload(po) ==
    LET n == extract_number_value(po, K_size)
    IN IF n.tag = "Panic" THEN Panic
       ELSE Ok([variant |-> "Push", commit_count |-> unwrap_or(n, 1)])

action_payload(variant, po, default) ==
    Ok([variant |-> variant,
        action |-> unwrap_or(extract_string_value(po, K_action), default)])

ref_payload(variant, po) ==
    Ok([variant |-> variant,
        ref_type |-> unwrap_or(extract_string_value(po, K_ref_type),
                               T_unknown)])

parse_payload(json_obj, event_type) ==
    LET po == payload_obj(json_obj)
    IN CASE event_type = T_PushEvent ->
              IF po.tag = "Panic" THEN Panic ELSE push_payload(po.val)
         [] event_type = T_IssuesEvent ->
              IF po.tag = "Panic" THEN Panic
              ELSE action_payload("IssuesEvent", po.val, T_unknown)
         [] event_type = T_PullRequestEvent ->
              IF po.tag = "Panic" THEN Panic
              ELSE action_payload("PullRequestEvent", po.val, T_unknown)
         [] event_type = T_WatchEvent -> Ok([variant |-> "WatchEvent"])
         [] event_type = T_ForkEvent -> Ok([variant |-> "ForkEvent"])
         [] event_type = T_CreateEvent ->
              IF po.tag = "Panic" THEN Panic
              ELSE ref_payload("CreateEvent", po.val)
         [] event_type = T_DeleteEvent ->
              IF po.tag = "Panic" THEN Panic
              ELSE ref_payload("DeleteEvent", po.val)
         [] event_type = T_ReleaseEvent ->
              IF po.tag = "Panic" THEN Panic
              ELSE action_payload("ReleaseEvent", po.val, T_published)
         [] event_type = T_IssueCommentEvent ->
              Ok([variant |-> "IssueCommentEvent"])
         [] event_type = T_PullRequestReviewCommentEvent ->
              Ok([variant |-> "PullRequestReviewCommentEvent"])
         [] event_type = T_CommitCommentEvent ->
              Ok([variant |-> "CommitCommentEvent"])
         [] OTHER -> Ok([variant |-> "Unknown"])

GitHubEvent(event_type, repo_name, payload) ==
    [event_type |-> event_type, repo_name |-> repo_name, payload |-> payload]

parse_event(json_obj) ==
    LET event_type == extract_string_value(json_obj, K_type)
    IN IF event_type.tag = "None" THEN Err("Missing 'type' field")
       ELSE LET repo_obj == extract_nested_object(json_obj, K_repo)
            IN IF repo_obj.tag = "Panic" THEN Panic
               ELSE IF repo_obj.tag = "None" THEN Err("Missing 'repo' field")
               ELSE LET repo_name == extract_string_value(repo_obj.val, K_name)
                    IN IF repo_name.tag = "None"
                       THEN Err("Missing 'repo.name' field")
                       ELSE LET payload == parse_payload(json_obj,
                                                         event_type.val)
                            IN IF payload.tag # "Ok" THEN payload
                               ELSE Ok(GitHubEvent(event_type.val,
                                                   repo_name.val,
                                                   payload.val))

\* ---------------------------------------------------------- array splitter

\* The for loop of split_json_objects over chars().enumerate(), from the
\* 0-based character position from: i and start count characters, and the
\* slice content[start..=i] takes them as byte offsets.
RECURSIVE split_loop(_, _, _, _, _)
split_loop(text, from, depth, start, objs) ==
    LET i == next_of(text, from, {"{", "}"})
    IN IF i >= Len(text) THEN Ok(objs)
       ELSE IF text[i + 1] = "{"
            THEN split_loop(text, i + 1, depth + 1,
                            IF depth = 0 THEN i ELSE start, objs)
       ELSE IF depth - 1 = 0
            THEN LET obj == byte_slice(text, start, i + 1)
                 IN IF obj.tag = "Panic" THEN Panic
                    ELSE split_loop(text, i + 1, depth - 1, start,
                                    Append(objs, trim(obj.val)))
       ELSE split_loop(text, i + 1, depth - 1, start, objs)

split_json_objects(content) == split_loop(content, 0, 0, 0, <<>>)

\* ------------------------------------------------------------ the inputs
\* A response body is described by its structure (doc) and serialised to
\* the text the parser is given: the structure says which members each
\* array element has of its own, the text is all the parser sees.

T_GollumEvent == <<"G", "o", "l", "l", "u", "m", "E", "v", "e", "n", "t">>
T_User == <<"U", "s", "e", "r">>
T_ab == <<"a", "/", "b">>
T_eee == <<EACUTE, EACUTE, EACUTE>>
T_opened == <<"o", "p", "e", "n", "e", "d">>
T_branch == <<"b", "r", "a", "n", "c", "h">>
T_true == <<"t", "r", "u", "e">>
K_actor == <<"a", "c", "t", "o", "r">>
K_owner == <<"o", "w", "n", "e", "r">>
K_public == <<"p", "u", "b", "l", "i", "c">>
K_head == <<"h", "e", "a", "d">>
K_issue == <<"i", "s", "s", "u", "e">>
K_id == <<"i", "d">>
K_m == <<"m">>

KnownKinds == {"PushEvent", "IssuesEvent", "PullRequestEvent", "WatchEvent",
               "ForkEvent", "CreateEvent", "DeleteEvent", "ReleaseEvent",
               "IssueCommentEvent", "PullRequestReviewCommentEvent",
               "CommitCommentEvent"}

Kinds == KnownKinds \cup {"GollumEvent"}

KindText(kind) ==
    CASE kind = "PushEvent" -> T_PushEvent
      [] kind = "IssuesEvent" -> T_IssuesEvent
      [] kind = "PullRequestEvent" -> T_PullRequestEvent
      [] kind = "WatchEvent" -> T_WatchEvent
      [] kind = "ForkEvent" -> T_ForkEvent
      [] kind = "CreateEvent" -> T_CreateEvent
      [] kind = "DeleteEvent" -> T_DeleteEvent
      [] kind = "ReleaseEvent" -> T_ReleaseEvent
      [] kind = "IssueCommentEvent" -> T_IssueCommentEvent
      [] kind = "PullRequestReviewCommentEvent" ->
             T_PullRequestReviewCommentEvent
      [] kind = "CommitCommentEvent" -> T_CommitCommentEvent
      [] kind = "GollumEvent" -> T_GollumEvent

RECURSIVE ToDigits(_)
ToDigits(n) ==
    IF n < 10 THEN <<AsciiDigits[n + 1]>>
    ELSE ToDigits(n \div 10) \o <<AsciiDigits[(n % 10) + 1]>>

RECURSIVE Join(_)
Join(parts) ==
    IF parts = <<>> THEN <<>>
    ELSE IF Len(parts) = 1 THEN parts[1]
    ELSE parts[1] \o <<",">> \o Join(Tail(parts))

StrLit(text) == <<Q>> \o text \o <<Q>>
Member(key, value) == pattern(key) \o value
Obj(members) == <<"{">> \o Join(members) \o <<"}">>

TypeMembers(ty) ==
    CASE ty = "absent" -> <<>>
      [] ty = "nested" ->
             <<Member(K_actor, Obj(<<Member(K_type, StrLit(T_User))>>))>>
      [] OTHER -> <<Member(K_type, StrLit(KindText(ty)))>>

RepoMembers(repo) ==
    CASE repo = "absent" -> <<>>
      [] repo = "named" ->
             <<Member(K_repo, Obj(<<Member(K_name, StrLit(T_ab))>>))>>
      [] repo = "accent3" ->
             <<Member(K_repo, Obj(<<Member(K_name, StrLit(T_eee))>>))>>
      [] repo = "accent4" ->
             <<Member(K_repo,
                      Obj(<<Member(K_name, StrLit(T_eee \o <<EACUTE>>))>>))>>
      [] repo = "unnamed" ->
             <<Member(K_repo, Obj(<<Member(K_id, <<"7">>)>>))>>
      [] repo = "deep" ->
             <<Member(K_repo,
                      Obj(<<Member(K_owner,
                                   Obj(<<Member(K_name, StrLit(<<"x">>))>>))>>))>>

PayloadMembers(payload) ==
    CASE payload = "absent" -> <<>>
      [] payload = "empty" -> <<Member(K_payload, Obj(<<>>))>>
      [] payload = "size3" ->
             <<Member(K_payload, Obj(<<Member(K_size, <<"3">>)>>))>>
      [] payload = "size_max" ->
             <<Member(K_payload,
                      Obj(<<Member(K_size, ToDigits(USIZE_MAX))>>))>>
      [] payload = "size_overflow" ->
             <<Member(K_payload,
                      Obj(<<Member(K_size, ToDigits(USIZE_MAX + 1))>>))>>
      [] payload = "size_overflow10" ->
             <<Member(K_payload,
                      Obj(<<Member(K_size, ToDigits(USIZE_MAX) \o <<"0">>)>>))>>
      [] payload = "size_outside" ->
             <<Member(K_size, <<"7">>), Member(K_payload, Obj(<<>>))>>
      [] payload = "size_nested" ->
             <<Member(K_payload,
                      Obj(<<Member(K_head,
                                   Obj(<<Member(K_size, <<"5">>)>>))>>))>>
      [] payload = "size_accent2" ->
             <<Member(K_payload,
                      Obj(<<Member(K_m, StrLit(<<EACUTE, EACUTE>>)),
                            Member(K_size, <<"3">>)>>))>>
      [] payload = "msg_accent3" ->
             <<Member(K_payload, Obj(<<Member(K_m, StrLit(T_eee))>>))>>
      [] payload = "action" ->
             <<Member(K_payload,
                      Obj(<<Member(K_action, StrLit(T_opened))>>))>>
      [] payload = "action_outside" ->
             <<Member(K_action, StrLit(T_opened)),
               Member(K_payload, Obj(<<>>))>>
      [] payload = "action_nested" ->
             <<Member(K_payload,
                      Obj(<<Member(K_issue,
                                   Obj(<<Member(K_action,
                                                StrLit(<<"x">>))>>))>>))>>
      [] payload = "action_accent3" ->
             <<Member(K_payload,
                      Obj(<<Member(K_m, StrLit(T_eee)),
                            Member(K_action, StrLit(T_opened))>>))>>
      [] payload = "ref_type" ->
             <<Member(K_payload,
                      Obj(<<Member(K_ref_type, StrLit(T_branch))>>))>>
      [] payload = "ref_outside" ->
             <<Member(K_ref_type, StrLit(T_branch)),
               Member(K_payload, Obj(<<>>))>>
      [] payload = "ref_accent3" ->
             <<Member(K_payload,
                      Obj(<<Member(K_m, StrLit(T_eee)),
                            Member(K_ref_type, StrLit(T_branch))>>))>>

TailMembers(tail) ==
    IF tail = "public" THEN <<Member(K_public, T_true)>> ELSE <<>>

Element(ty, repo, payload, tail) ==
    [ty |-> ty, repo |-> repo, payload |-> payload, tail |-> tail]

RenderElement(e) ==
    Obj(TypeMembers(e.ty) \o RepoMembers(e.repo)
        \o PayloadMembers(e.payload) \o TailMembers(e.tail))

SizeShapes == {"absent", "empty", "size3", "size_max", "size_overflow",
               "size_overflow10", "size_outside", "size_nested",
               "size_accent2", "msg_accent3"}
ActionShapes == {"absent", "empty", "action", "action_outside",
                 "action_nested", "action_accent3"}
RefShapes == {"absent", "empty", "ref_type", "ref_outside", "ref_accent3"}

ElementTails == {"none", "public"}

Elements ==
    {Element(ty, "named", "absent", "none") : ty \in Kinds}
    \cup {Element(ty, repo, "absent", tail) :
              ty \in {"WatchEvent", "GollumEvent", "absent", "nested"},
              repo \in {"absent", "named", "accent3", "accent4", "unnamed",
                        "deep"},
              tail \in ElementTails}
    \cup {Element("PushEvent", "named", p, tail) :
              p \in SizeShapes, tail \in ElementTails}
    \cup {Element(ty, "named", p, tail) :
              ty \in {"IssuesEvent", "PullRequestEvent", "ReleaseEvent"},
              p \in ActionShapes, tail \in ElementTails}
    \cup {Element(ty, "named", p, tail) :
              ty \in {"CreateEvent", "DeleteEvent"},
              p \in RefShapes, tail \in ElementTails}

\* The elements that accompany another one in a two-element array.
Companions ==
    {Element("WatchEvent", "named", "absent", "none"),
     Element("absent", "named", "absent", "none"),
     Element("PushEvent", "named", "size3", "public")}

RECURSIVE ElementSeqs(_)
ElementSeqs(n) ==
    IF n = 0 THEN {<<>>}
    ELSE IF n = 1 THEN {<<e>> : e \in Elements}
    ELSE {<<e>> \o t : e \in Elements, t \in {<<c>> : c \in Companions}}
         \cup {<<c>> \o t : c \in Companions, t \in ElementSeqs(n - 1)}

Wraps == {"plain", "spaced", "nbsp", "no_open", "no_close", "bare"}

Wrap(wrap, inner) ==
    CASE wrap = "plain" -> <<"[">> \o inner \o <<"]">>
      [] wrap = "spaced" ->
             <<" ", "[", "\n", " ">> \o inner \o <<"\t", "]", "\n">>
      [] wrap = "nbsp" -> <<NBSP, "[", NBSP>> \o inner \o <<"]", NBSP>>
      [] wrap = "no_open" -> inner \o <<"]">>
      [] wrap = "no_close" -> <<"[">> \o inner
      [] wrap = "bare" -> inner

RECURSIVE RenderElements(_)
RenderElements(elems) ==
    IF elems = <<>> THEN <<>>
    ELSE IF Len(elems) = 1 THEN RenderElement(elems[1])
    ELSE RenderElement(elems[1]) \o <<",">> \o RenderElements(Tail(elems))

Render(d) == Wrap(d.wrap, RenderElements(d.elems))

Docs ==
    {[wrap |-> "plain", elems |-> es] :
         es \in UNION {ElementSeqs(n) : n \in 0..MaxObjects}}
    \cup {[wrap |-> w, elems |-> es] :
              w \in Wraps,
              es \in {<<>>} \cup {<<c>> : c \in Companions}}

\* ------------------------------------------------------------------ state

VARIABLES
    doc,        \* the response body, as a structure
    json_text,  \* parse_events' argument: the response body, as text
    pc,         \* where parse_events is: "start", "loop" or "done"
    objects,    \* the spans split_json_objects returned
    next_obj,   \* the 1-based position of the for loop in objects
    outcomes,   \* what parse_event returned for each span visited
    events,     \* the Vec parse_events fills
    result,     \* what parse_events returned (or that it panicked)
    ex_json,    \* the text a field extractor or the splitter is called on
    ex_call,    \* the function that was called on it, "none" before
    ex_out,     \* what the extractor returned
    scan_i,     \* split_json_objects: the position the for loop has reached
    depth,      \* split_json_objects: the brace depth
    start,      \* split_json_objects: the recorded start of the open span
    username,   \* fetch_user_events' argument
    requests    \* the URLs an HTTP request was issued for

parse_vars == <<doc, json_text, pc, objects, next_obj, outcomes, events,
                result>>
ex_vars == <<ex_json, ex_call, ex_out>>
scan_vars == <<scan_i, depth, start>>
api_vars == <<username, requests>>
vars == <<doc, json_text, pc, objects, next_obj, outcomes, events, result,
          ex_json, ex_call, ex_out, scan_i, depth, start, username, requests>>

NotReturned == [tag |-> "NotReturned"]

Init ==
    /\ doc \in Docs
    /\ json_text = Render(doc)
    /\ pc = "start"
    /\ objects = <<>>
    /\ next_obj = 1
    /\ outcomes = <<>>
    /\ events = <<>>
    /\ result = NotReturned
    /\ ex_json = <<>>
    /\ ex_call = "idle"
    /\ ex_out = None
    /\ scan_i = 0
    /\ depth = 0
    /\ start = 0
    /\ username = <<>>
    /\ requests = <<>>

\* ------------------------------------------------------------ parse_events

trimmed(text) == trim(text)

is_json_array(t) == starts_with(t, "[") /\ ends_with(t, "]")

\* &trimmed[1..trimmed.len() - 1].trim()
content(t) ==
    LET inner == byte_slice(t, 1, byte_len(t) - 1)
    IN IF inner.tag = "Panic" THEN Panic ELSE Some(trim(inner.val))

\* The match of the for loop: Ok pushes the event, Err continues.
push_or_continue(evs, r) == IF r.tag = "Ok" THEN Append(evs, r.val) ELSE evs

\* Lines 20-27: the text is not bounded by [ and ].
RejectNotArray ==
    /\ pc = "start"
    /\ ~is_json_array(trimmed(json_text))
    /\ result' = Err("Expected JSON array")
    /\ pc' = "done"
    /\ UNCHANGED <<doc, json_text, objects, next_obj, outcomes, events>>
    /\ UNCHANGED ex_vars
    /\ UNCHANGED scan_vars
    /\ UNCHANGED api_vars

\* Lines 30-35: nothing between the brackets.
ReturnEmpty ==
    /\ pc = "start"
    /\ is_json_array(trimmed(json_text))
    /\ content(trimmed(json_text)) = Some(<<>>)
    /\ result' = Ok(events)
    /\ pc' = "done"
    /\ UNCHANGED <<doc, json_text, objects, next_obj, outcomes, events>>
    /\ UNCHANGED ex_vars
    /\ UNCHANGED scan_vars
    /\ UNCHANGED api_vars

\* Line 39: the content is split into object spans.
SplitObjects ==
    /\ pc = "start"
    /\ is_json_array(trimmed(json_text))
    /\ content(trimmed(json_text)) # Some(<<>>)
    /\ LET c == content(trimmed(json_text))
           split == IF c.tag = "Panic" THEN Panic
                    ELSE split_json_objects(c.val)
       IN IF split.tag = "Ok"
          THEN /\ objects' = split.val
               /\ pc' = "loop"
               /\ UNCHANGED result
          ELSE /\ result' = Panic
               /\ pc' = "done"
               /\ UNCHANGED objects
    /\ UNCHANGED <<doc, json_text, next_obj, outcomes, events>>
    /\ UNCHANGED ex_vars
    /\ UNCHANGED scan_vars
    /\ UNCHANGED api_vars

\* Lines 44-52: one iteration of the for loop.
ParseNextObject ==
    /\ pc = "loop"
    /\ next_obj <= Len(objects)
    /\ LET r == parse_event(objects[next_obj])
       IN /\ outcomes' = Append(outcomes, r)
          /\ IF r.tag = "Panic"
             THEN /\ result' = Panic
                  /\ pc' = "done"
                  /\ UNCHANGED <<events, next_obj>>
             ELSE /\ events' = push_or_continue(events, r)
                  /\ next_obj' = next_obj + 1
                  /\ UNCHANGED <<result, pc>>
    /\ UNCHANGED <<doc, json_text, objects>>
    /\ UNCHANGED ex_vars
    /\ UNCHANGED scan_vars
    /\ UNCHANGED api_vars

\* Line 54: the loop is over.
ReturnEvents ==
    /\ pc = "loop"
    /\ next_obj > Len(objects)
    /\ result' = Ok(events)
    /\ pc' = "done"
    /\ UNCHANGED <<doc, json_text, objects, next_obj, outcomes, events>>
    /\ UNCHANGED ex_vars
    /\ UNCHANGED scan_vars
    /\ UNCHANGED api_vars

Next ==
    \/ RejectNotArray
    \/ ReturnEmpty
    \/ SplitObjects
    \/ ParseNextObject
    \/ ReturnEvents

Spec == Init /\ [][Next]_vars

\* ------------------------------------------------- the field extractors
\* Each extractor applied to a span: a member "k": followed by a tail of
\* free characters.

ExKey == <<"k">>

TailChars == {Q, BS, "a", "9", "1", ARABIC3, " ", "}"}

RECURSIVE FreeTails(_)
FreeTails(n) ==
    IF n = 0 THEN {<<>>}
    ELSE LET shorter == FreeTails(n - 1)
         IN shorter \cup {Append(t, c) : t \in shorter, c \in TailChars}

Leads == {pattern(ExKey),
          pattern(ExKey) \o <<" ">>,
          pattern(ExKey) \o <<Q>>,
          pattern(ExKey) \o <<" ", Q>>,
          <<"{", Q, "j", Q, ":", "1", ",">> \o pattern(ExKey) \o <<Q>>,
          <<Q, "k", Q>>}

InitExtract ==
    /\ ex_json \in {lead \o tail : lead \in Leads, tail \in FreeTails(MaxTail)}
    /\ ex_call = "none"
    /\ ex_out = None
    /\ doc = [wrap |-> "bare", elems |-> <<>>]
    /\ json_text = <<>>
    /\ pc = "idle"
    /\ objects = <<>>
    /\ next_obj = 1
    /\ outcomes = <<>>
    /\ events = <<>>
    /\ result = NotReturned
    /\ scan_i = 0
    /\ depth = 0
    /\ start = 0
    /\ username = <<>>
    /\ requests = <<>>

CallExtractString ==
    /\ ex_call = "none"
    /\ ex_call' = "extract_string_value"
    /\ ex_out' = extract_string_value(ex_json, ExKey)
    /\ UNCHANGED ex_json
    /\ UNCHANGED parse_vars
    /\ UNCHANGED scan_vars
    /\ UNCHANGED api_vars

CallExtractNumber ==
    /\ ex_call = "none"
    /\ ex_call' = "extract_number_value"
    /\ ex_out' = extract_number_value(ex_json, ExKey)
    /\ UNCHANGED ex_json
    /\ UNCHANGED parse_vars
    /\ UNCHANGED scan_vars
    /\ UNCHANGED api_vars

NextExtract ==
    \/ CallExtractString
    \/ CallExtractNumber

SpecExtract == InitExtract /\ [][NextExtract]_vars

\* ------------------------------------------- the scanners on any content
\* The splitter, the nested-object extractor and the array counter applied
\* to a text: any short text of braces, quotes, brackets and two-byte
\* characters, or a member "k": whose value is a generated array.

\* Deepest nesting of the values inside a generated array.
MaxNest == 2

\* Longest free text the scanners are given.
MaxScan == 5

V_num == [k |-> "num", of |-> <<"7">>]
V_str == [k |-> "str", of |-> <<"a">>]
V_str_braces == [k |-> "str", of |-> <<"{", "}">>]
V_obj(members) == [k |-> "obj", of |-> members]
V_arr(items) == [k |-> "arr", of |-> items]

RECURSIVE Values(_)
Values(d) ==
    IF d = 0 THEN {V_num, V_str, V_str_braces}
    ELSE LET inner == Values(d - 1)
         IN inner \cup {V_obj(<<>>), V_arr(<<>>)}
                  \cup {V_obj(<<v>>) : v \in inner}
                  \cup {V_arr(<<v>>) : v \in inner}

RECURSIVE RenderValue(_)
RenderValue(v) ==
    CASE v.k = "num" -> v.of
      [] v.k = "str" -> StrLit(v.of)
      [] v.k = "obj" ->
             Obj([n \in DOMAIN v.of |-> Member(K_m, RenderValue(v.of[n]))])
      [] v.k = "arr" ->
             <<"[">> \o Join([n \in DOMAIN v.of |-> RenderValue(v.of[n])])
                     \o <<"]">>

ArrayWraps == {"member", "member_spaced", "member_followed",
               "member_preceded"}

ArrayDocs ==
    LET items == Values(MaxNest)
    IN {[wrap |-> w, elems |-> es] :
            w \in ArrayWraps,
            es \in {<<>>} \cup {<<v>> : v \in items}
                         \cup {<<v, w2>> : v \in items, w2 \in items}}

\* The member "k": with the array as its value, alone or inside an object
\* with another array member after it or before it.
RenderArrayDoc(d) ==
    LET array == RenderValue(V_arr(d.elems))
        other == Member(K_m, RenderValue(V_arr(<<V_obj(<<>>)>>)))
    IN CASE d.wrap = "member" -> Member(ExKey, array)
         [] d.wrap = "member_spaced" ->
                pattern(ExKey) \o <<" ", "\n">> \o array
         [] d.wrap = "member_followed" ->
                Obj(<<Member(ExKey, array), other>>)
         [] d.wrap = "member_preceded" ->
                Obj(<<other, Member(ExKey, array)>>)

ScanChars == {"{", "}", "[", Q, EACUTE}

RECURSIVE ScanTails(_)
ScanTails(n) ==
    IF n = 0 THEN {<<>>}
    ELSE LET shorter == ScanTails(n - 1)
         IN shorter \cup {Append(t, c) : t \in shorter, c \in ScanChars}

ScanLeads == {<<>>, pattern(ExKey), pattern(ExKey) \o <<" ">>}

\* Two objects, the first with a brace inside a string literal; an object
\* after a stray closing brace; an object after a two-byte character.
LongTexts ==
    {Obj(<<Member(K_m, StrLit(<<"{">>))>>) \o <<",">> \o Obj(<<>>),
     Obj(<<Member(K_m, StrLit(<<"}">>))>>) \o <<",">> \o Obj(<<>>),
     <<"}", ",">> \o Obj(<<Member(K_m, <<"7">>)>>) \o <<",">> \o Obj(<<>>),
     Obj(<<Member(K_m, StrLit(<<EACUTE>>))>>) \o <<",">> \o Obj(<<>>)}

FreeDoc == [wrap |-> "free", elems |-> <<>>]

InitScan ==
    /\ \/ /\ doc = FreeDoc
          /\ ex_json \in {lead \o tail : lead \in ScanLeads,
                                         tail \in ScanTails(MaxScan)}
                         \cup LongTexts
       \/ /\ doc \in ArrayDocs
          /\ ex_json = RenderArrayDoc(doc)
    /\ ex_call = "none"
    /\ ex_out = None
    /\ json_text = <<>>
    /\ pc = "idle"
    /\ objects = <<>>
    /\ next_obj = 1
    /\ outcomes = <<>>
    /\ events = <<>>
    /\ result = NotReturned
    /\ scan_i = 0
    /\ depth = 0
    /\ start = 0
    /\ username = <<>>
    /\ requests = <<>>

CallExtractNested ==
    /\ ex_call = "none"
    /\ ex_call' = "extract_nested_object"
    /\ ex_out' = extract_nested_object(ex_json, ExKey)
    /\ UNCHANGED ex_json
    /\ UNCHANGED parse_vars
    /\ UNCHANGED scan_vars
    /\ UNCHANGED api_vars

CallExtractArrayLength ==
    /\ ex_call = "none"
    /\ ex_call' = "extract_array_length"
    /\ ex_out' = extract_array_length(ex_json, ExKey)
    /\ UNCHANGED ex_json
    /\ UNCHANGED parse_vars
    /\ UNCHANGED scan_vars
    /\ UNCHANGED api_vars

\* The next brace outside string literals: one with an even number of
\* quotes before it.
NextBraceOutsideStrings ==
    LET quotes(j) == Cardinality({n \in 1..j : ex_json[n] = Q})
        hits == {j \in scan_i..(Len(ex_json) - 1) :
                     /\ ex_json[j + 1] \in {"{", "}"}
                     /\ quotes(j) % 2 = 0}
    IN IF hits = {} THEN Len(ex_json)
       ELSE CHOOSE j \in hits : \A n \in hits : j <= n

\* split_json_objects on ex_json, one iteration of its for loop that meets
\* a brace at a time: the iterations in between change nothing.
Scanning ==
    /\ ex_call \in {"none", "split_json_objects"}
    /\ result = NotReturned

NextBrace == next_of(ex_json, scan_i, {"{", "}"})

\* Lines 69-74: the arm of '{'.
ScanOpenBrace ==
    /\ Scanning
    /\ NextBrace < Len(ex_json)
    /\ ex_json[NextBrace + 1] = "{"
    /\ start' = IF depth = 0 THEN NextBrace ELSE start
    /\ depth' = depth + 1
    /\ scan_i' = NextBrace + 1
    /\ ex_call' = "split_json_objects"
    /\ UNCHANGED <<ex_json, ex_out>>
    /\ UNCHANGED parse_vars
    /\ UNCHANGED api_vars

\* Lines 75-85: the arm of '}'.
ScanCloseBrace ==
    /\ Scanning
    /\ NextBrace < Len(ex_json)
    /\ ex_json[NextBrace + 1] = "}"
    /\ depth' = depth - 1
    /\ scan_i' = NextBrace + 1
    /\ ex_call' = "split_json_objects"
    /\ IF depth - 1 = 0
       THEN LET obj == byte_slice(ex_json, start, NextBrace + 1)
            IN IF obj.tag = "Panic"
               THEN /\ result' = Panic
                    /\ UNCHANGED objects
               ELSE /\ objects' = Append(objects, trim(obj.val))
                    /\ UNCHANGED result
       ELSE UNCHANGED <<objects, result>>
    /\ UNCHANGED <<doc, json_text, pc, next_obj, outcomes, events>>
    /\ UNCHANGED <<ex_json, ex_out, start>>
    /\ UNCHANGED api_vars

\* Line 90: no brace is left.
ScanReturn ==
    /\ Scanning
    /\ NextBrace >= Len(ex_json)
    /\ result' = Ok(objects)
    /\ scan_i' = Len(ex_json)
    /\ ex_call' = "split_json_objects"
    /\ UNCHANGED <<doc, json_text, pc, objects, next_obj, outcomes, events>>
    /\ UNCHANGED <<ex_json, ex_out, depth, start>>
    /\ UNCHANGED api_vars

NextScan ==
    \/ CallExtractNested
    \/ CallExtractArrayLength
    \/ ScanOpenBrace
    \/ ScanCloseBrace
    \/ ScanReturn

SpecScan == InitScan /\ [][NextScan]_vars

\* ------------------------------------------------------ fetch_user_events
\* src/git-hub-user-activity/src/api.rs: the username is validated, the
\* request is made, and the response body goes to parse_events.

\* Longest generated username, in characters.
MaxName == 41

MAX_USERNAME_LEN == 39

GITHUB_API_BASE == "https://api.github.com"

InvalidUsername(m) == [tag |-> "Err", kind |-> "InvalidUsername", msg |-> m]
NetworkError == [tag |-> "Err", kind |-> "NetworkError"]
ApiError == [tag |-> "Err", kind |-> "ApiError"]
ReadError ==
    [tag |-> "Err", kind |-> "ParseError", msg |-> "Failed to read response"]

contains(s, ch) == \E n \in DOMAIN s : s[n] = ch

\* The validation with spaces let through.
validate_username_spaces_allowed(name) ==
    IF name = <<>> THEN InvalidUsername("Username cannot be empty")
    ELSE IF byte_len(name) > MAX_USERNAME_LEN
         THEN InvalidUsername("Username is too long (max 39 characters)")
    ELSE Ok(<<>>)

validate_username(name) ==
    IF name = <<>> THEN InvalidUsername("Username cannot be empty")
    ELSE IF contains(name, " ")
         THEN InvalidUsername("Username cannot contain spaces")
    ELSE IF byte_len(name) > MAX_USERNAME_LEN
         THEN InvalidUsername("Username is too long (max 39 characters)")
    ELSE Ok(<<>>)

\* format!("{}/users/{}/events", GITHUB_API_BASE, username)
url(name) == <<GITHUB_API_BASE, "/users/">> \o name \o <<"/events">>

Repeat(ch, n) == [k \in 1..n |-> ch]

T_torvalds == <<"t", "o", "r", "v", "a", "l", "d", "s">>

Usernames ==
    {Repeat("a", n) : n \in 0..MaxName}
    \cup {Repeat(EACUTE, n) : n \in 0..MaxName}
    \cup {Repeat("a", n) \o <<EACUTE>> : n \in 0..(MaxName - 1)}
    \cup {Repeat("a", n) \o <<" ">> \o Repeat("a", m) :
              n \in {0, 1, MaxName - 1}, m \in {0, 1, MaxName - 1}}
    \cup {Repeat("a", n) \o <<"\t">> : n \in 0..(MaxName - 1)}
    \cup {T_torvalds, <<"u", "s", "e", "r", "-", "n", "a", "m", "e">>,
          <<"u", "s", "e", "r", "_", "n", "a", "m", "e">>,
          <<"u", "s", "e", "r", " ", "n", "a", "m", "e">>}

\* The response bodies the request can return.
ResponseDocs ==
    {[wrap |-> w, elems |-> es] :
         w \in {"plain", "bare"},
         es \in {<<>>} \cup {<<c>> : c \in Companions}}

\* What make_http_request can return: a body, or one of its errors.
HttpOutcomes ==
    {Ok(d) : d \in ResponseDocs} \cup {NetworkError, ApiError, ReadError}

InitFetch ==
    /\ username \in Usernames
    /\ requests = <<>>
    /\ pc = "validate"
    /\ doc = [wrap |-> "bare", elems |-> <<>>]
    /\ json_text = <<>>
    /\ objects = <<>>
    /\ next_obj = 1
    /\ outcomes = <<>>
    /\ events = <<>>
    /\ result = NotReturned
    /\ ex_json = <<>>
    /\ ex_call = "idle"
    /\ ex_out = None
    /\ scan_i = 0
    /\ depth = 0
    /\ start = 0

\* Line 27: validate_username(username)?
ValidateUsername ==
    /\ pc = "validate"
    /\ LET v == validate_username(username)
       IN IF v.tag = "Err"
          THEN /\ result' = v
               /\ pc' = "done"
          ELSE /\ pc' = "request"
               /\ UNCHANGED result
    /\ UNCHANGED <<doc, json_text, objects, next_obj, outcomes, events>>
    /\ UNCHANGED ex_vars
    /\ UNCHANGED scan_vars
    /\ UNCHANGED api_vars

\* Lines 32-35: the URL is built and the request is made; its body is the
\* text parse_events is called on at line 39.
MakeHttpRequest ==
    /\ pc = "request"
    /\ requests' = Append(requests, url(username))
    /\ \E out \in HttpOutcomes :
           IF out.tag = "Err"
           THEN /\ result' = out
                /\ pc' = "done"
                /\ UNCHANGED <<doc, json_text>>
           ELSE /\ doc' = out.val
                /\ json_text' = Render(out.val)
                /\ pc' = "start"
                /\ UNCHANGED result
    /\ UNCHANGED <<objects, next_obj, outcomes, events, username>>
    /\ UNCHANGED ex_vars
    /\ UNCHANGED scan_vars

NextFetch ==
    \/ ValidateUsername
    \/ MakeHttpRequest
    \/ Next

SpecFetch == InitFetch /\ [][NextFetch]_vars

\* ------------------------------------------------------------- the claims

\* What the structure of the response body says, for comparison with what
\* the parser made of its text.

Bracketed(d) == d.wrap \in {"plain", "spaced", "nbsp"}

HasOwnType(e) == e.ty \in Kinds

HasOwnRepoName(e) == e.repo \in {"named", "accent3", "accent4"}

\* The i-th span visited is the span of the i-th array element: the
\* generated elements hold no brace inside a string literal.
ElementOf(i) == doc.elems[i]

SpansMatchElements == Len(objects) = Len(doc.elems)

Visited == IF SpansMatchElements THEN DOMAIN outcomes ELSE {}

RECURSIVE Records(_)
Records(outs) ==
    IF outs = <<>> THEN <<>>
    ELSE (IF Head(outs).tag = "Ok" THEN <<Head(outs).val>> ELSE <<>>)
         \o Records(Tail(outs))

RECURSIVE DecimalValue(_)
DecimalValue(digits) ==
    IF digits = <<>> THEN 0
    ELSE 10 * DecimalValue(Prefix(digits, Len(digits) - 1))
         + to_digit(digits[Len(digits)])

\* The longest prefix of s made of the characters '0'..'9'.
AsciiDigitRun(s) ==
    Prefix(s, next_of(s, 0, {c \in {s[i] : i \in 1..Len(s)} :
                                 ~IsAsciiDigit(c)}))

\* C1: parse_events returns ParseError exactly when the trimmed buffer is
\* not bounded by '[' and ']', and returns Ok for every bounded buffer,
\* whatever the objects inside look like.
C1_ErrIffNotBracketed ==
    pc = "done" =>
        /\ result.tag = "Err" <=> ~Bracketed(doc)
        /\ Bracketed(doc) => result.tag = "Ok"

\* C2: every span the splitter produced is visited, each appends exactly
\* one record or nothing, and the returned sequence is exactly the records
\* of the spans that assembled, in order.
C2_EverySpanAppendsOrIsSkipped ==
    (pc = "done" /\ objects # <<>>) =>
        /\ Len(outcomes) = Len(objects)
        /\ \A i \in DOMAIN outcomes : outcomes[i].tag \in {"Ok", "Err"}
        /\ result = Ok(Records(outcomes))

\* C3: an array element with no type member of its own, or whose repo has
\* no name member of its own, contributes no record, even when the key
\* occurs elsewhere in the element.
C3_MissingRequiredFieldGivesNoRecord ==
    \A i \in Visited :
        (~HasOwnType(ElementOf(i)) \/ ~HasOwnRepoName(ElementOf(i)))
            => outcomes[i].tag # "Ok"

\* C4: a buffer of '[' and ']' with only whitespace between them (and
\* around them) parses to Ok with no records.
C4_EmptyArrayGivesNoRecords ==
    (pc = "done" /\ Bracketed(doc) /\ doc.elems = <<>>) => result = Ok(<<>>)

C4_Witness ==
    /\ pc = "done"
    /\ doc.wrap = "spaced"
    /\ doc.elems = <<>>
    /\ result = Ok(<<>>)

\* The variant the discriminator selects.
VariantOf(event_type) ==
    IF event_type = T_PushEvent THEN "Push"
    ELSE IF \E k \in KnownKinds : KindText(k) = event_type
         THEN CHOOSE k \in KnownKinds : KindText(k) = event_type
         ELSE "Unknown"

\* C5: payload selection never fails: once type, repo and repo.name are
\* found in a span, the span assembles into a record whose payload is the
\* one variant its discriminator selects (Unknown outside the eleven known
\* kinds) and whose event_type is the discriminator unchanged.
C5_PayloadSelectionNeverFails ==
    \A i \in DOMAIN outcomes :
        LET event_type == extract_string_value(objects[i], K_type)
            repo_obj == extract_nested_object(objects[i], K_repo)
        IN (/\ event_type.tag = "Some"
            /\ repo_obj.tag = "Some"
            /\ extract_string_value(repo_obj.val, K_name).tag = "Some")
           => /\ outcomes[i].tag = "Ok"
              /\ outcomes[i].val.event_type = event_type.val
              /\ outcomes[i].val.payload.variant = VariantOf(event_type.val)

\* The commit count the payload of a push element states.  A size inside
\* a deeper object of payload, and a size that does not fit usize, are left
\* open here.
StatedCommitCount(payload) ==
    CASE payload \in {"absent", "empty", "size_outside", "msg_accent3"} -> 1
      [] payload \in {"size3", "size_accent2"} -> 3
      [] payload = "size_max" -> USIZE_MAX

\* C6: the record of a PushEvent element with a repo.name carries the value
\* of size inside payload when it is there, and 1 when payload is absent or
\* has no size; a size outside payload is not used.
C6_PushCommitCountIsPayloadSize ==
    \A i \in Visited :
        LET e == ElementOf(i)
        IN (/\ e.ty = "PushEvent"
            /\ e.repo = "named"
            /\ e.payload \notin {"size_nested", "size_overflow",
                                 "size_overflow10"}
            /\ outcomes[i].tag = "Ok")
           => outcomes[i].val.payload =
                  [variant |-> "Push",
                   commit_count |-> StatedCommitCount(e.payload)]

\* The action or ref_type the payload of an element states, or the default
\* of its kind.  A sub-field inside a deeper object of payload is left open.
StatedSubField(e) ==
    CASE e.payload \in {"action", "action_accent3"} -> T_opened
      [] e.payload \in {"ref_type", "ref_accent3"} -> T_branch
      [] OTHER -> IF e.ty = "ReleaseEvent" THEN T_published ELSE T_unknown

\* C7: for the action- and ref-bearing kinds a missing payload or sub-field
\* never fails the element and yields the default ("unknown", "published"
\* for ReleaseEvent); a sub-field inside payload is carried as it is.
C7_ActionAndRefDefaults ==
    \A i \in Visited :
        LET e == ElementOf(i)
        IN (/\ e.ty \in {"IssuesEvent", "PullRequestEvent", "ReleaseEvent",
                         "CreateEvent", "DeleteEvent"}
            /\ e.repo = "named"
            /\ e.payload # "action_nested")
           => /\ outcomes[i].tag = "Ok"
              /\ outcomes[i].val.payload =
                     IF e.ty \in {"CreateEvent", "DeleteEvent"}
                     THEN [variant |-> e.ty, ref_type |-> StatedSubField(e)]
                     ELSE [variant |-> e.ty, action |-> StatedSubField(e)]

\* The text after the key's colon and whitespace, when the key is there.
ExValue == after_colon(ex_json, ExKey)

ExKeyFound == find(ex_json, pattern(ExKey)) # -1

\* The 1-based positions in ExValue of the quotes after the opening one
\* that no backslash immediately precedes.
UnescapedQuotes ==
    {p \in 2..Len(ExValue) : ExValue[p] = Q /\ ExValue[p - 1] # BS}

FirstUnescapedQuote ==
    CHOOSE p \in UnescapedQuotes : \A q \in UnescapedQuotes : p <= q

\* C8: for a key whose value is a string literal, extract_string_value
\* returns the characters between the opening quote and the first later
\* quote that no backslash immediately precedes, backslashes included.
C8_StringEndsAtFirstUnescapedQuote ==
    (/\ ex_call = "extract_string_value"
     /\ ExKeyFound
     /\ starts_with(ExValue, Q)
     /\ UnescapedQuotes # {})
    => ex_out = Some(SubSeq(ExValue, 2, FirstUnescapedQuote - 1))

C8_Witness ==
    /\ ex_call = "extract_string_value"
    /\ ExKeyFound
    /\ starts_with(ExValue, Q)
    /\ UnescapedQuotes # {}
    /\ ex_out = Some(<<"a", BS, Q>>)

\* C9: extract_number_value returns the value of the longest run of ASCII
\* decimal digits after the key's colon and whitespace; the character
\* that ends the run does not influence the result; no digit, not found.
C9_NumberIsAsciiDigitRun ==
    (ex_call = "extract_number_value" /\ ExKeyFound) =>
        LET run == AsciiDigitRun(ExValue)
        IN IF run = <<>> THEN ex_out = None
           ELSE DecimalValue(run) <= USIZE_MAX
                    => ex_out = Some(DecimalValue(run))

\* C10: when the digit run after "size": in the payload the code extracted
\* does not fit usize, extract_number_value returns not found (no wrapped
\* or truncated value), and a PushEvent span with a repo.name is emitted
\* with the default commit count 1.
C10_OverflowFallsBackToOne ==
    \A i \in DOMAIN outcomes :
        LET span == objects[i]
            po == extract_nested_object(span, K_payload)
        IN (/\ po.tag = "Some"
            /\ find(po.val, pattern(K_size)) # -1
            /\ DecimalValue(AsciiDigitRun(after_colon(po.val, K_size)))
                   > USIZE_MAX)
           => /\ extract_number_value(po.val, K_size) = None
              /\ (/\ extract_string_value(span, K_type) = Some(T_PushEvent)
                  /\ SpansMatchElements
                  /\ ElementOf(i).repo = "named")
                 => (/\ outcomes[i].tag = "Ok"
                     /\ outcomes[i].val.payload =
                            [variant |-> "Push", commit_count |-> 1])

C10_Witness ==
    /\ pc = "done"
    /\ doc.elems = <<Element("PushEvent", "named", "size_overflow", "none")>>
    /\ result.tag = "Ok"
    /\ Len(result.val) = 1
    /\ result.val[1].payload = [variant |-> "Push", commit_count |-> 1]

\* The number of opening braces less the number of closing braces among
\* the first p characters of text, braces inside string literals included.
Balance(text, p) ==
    Cardinality({n \in 1..p : text[n] = "{"})
        - Cardinality({n \in 1..p : text[n] = "}"})

\* The 1-based positions of the closing braces that bring the balance of
\* text to 0.
Closings(text) ==
    {p \in 1..Len(text) : text[p] = "}" /\ Balance(text, p) = 0}

FirstClosing(text) ==
    CHOOSE p \in Closings(text) : \A q \in Closings(text) : p <= q

\* C11: extract_nested_object returns not found when the key is absent,
\* when the value after the colon and whitespace does not start with '{',
\* or when no closing brace brings the depth back to 0; otherwise it
\* returns the text from that opening brace through the closing brace that
\* matches it, nested objects included.
C11_NestedObjectIsMatchedSpan ==
    ex_call = "extract_nested_object" =>
        IF \/ ~ExKeyFound
           \/ ~starts_with(ExValue, "{")
           \/ Closings(ExValue) = {}
        THEN ex_out = None
        ELSE ex_out = Some(Prefix(ExValue, FirstClosing(ExValue)))

\* The position of the opening brace that took the balance of text from 0
\* to 1 for the closing brace at p.
OpeningOf(text, p) ==
    CHOOSE b \in 1..p :
        /\ text[b] = "{"
        /\ Balance(text, b - 1) = 0
        /\ \A c \in (b + 1)..p :
               ~(text[c] = "{" /\ Balance(text, c - 1) = 0)

\* The spans of text from an opening brace at balance 0 through the
\* closing brace that returns the balance to 0, in the order they end.
TopLevelSpans(text) ==
    LET ends == Closings(text)
        nth(n) == CHOOSE p \in ends : Cardinality({q \in ends : q <= p}) = n
    IN [n \in 1..Cardinality(ends) |->
            SubSeq(text, OpeningOf(text, nth(n)), nth(n))]

\* C12: for any content, two-byte characters before or inside an object
\* included, cutting a span never fails and the spans yielded so far are
\* the texts from the '{' that took the depth from 0 to 1 through the '}'
\* that returned it to 0.
C12_SpansAreCutWhereScanned ==
    ex_call = "split_json_objects" =>
        /\ result.tag # "Panic"
        /\ objects = TopLevelSpans(Prefix(ex_json, scan_i))

BraceBalanced(span) ==
    /\ starts_with(span, "{")
    /\ ends_with(span, "}")
    /\ Balance(span, Len(span)) = 0
    /\ \A p \in 1..(Len(span) - 1) : Balance(span, p) # 0

\* C13: every span split_json_objects yields is brace-balanced: it begins
\* with '{', ends with '}', holds as many '{' as '}', and no proper prefix
\* of it is balanced, whatever the content.
C13_SpansAreBraceBalanced ==
    ex_call = "split_json_objects" =>
        \A n \in DOMAIN objects : BraceBalanced(objects[n])

\* The objects that are immediate children of the generated array.
ChildObjects == {n \in DOMAIN doc.elems : doc.elems[n].k = "obj"}

\* C14: extract_array_length returns not found exactly when the key is
\* absent or its value does not start with '['; for a well-nested array
\* value it returns the number of objects that are immediate children of
\* the array (objects inside child objects or child arrays are not
\* counted), 0 for an empty array.
C14_ArrayLengthCountsChildObjects ==
    ex_call = "extract_array_length" =>
        /\ ex_out = None <=> (~ExKeyFound \/ ~starts_with(ExValue, "["))
        /\ doc.wrap \in ArrayWraps
               => ex_out = Some(Cardinality(ChildObjects))

RECURSIVE LiteralEnd(_, _)
LiteralEnd(s, p) ==
    IF p > Len(s) THEN 0
    ELSE IF s[p] = BS THEN LiteralEnd(s, p + 2)
    ELSE IF s[p] = Q THEN p
    ELSE LiteralEnd(s, p + 1)

\* C16: when the string literal ends with an escaped backslash (backslash
\* backslash immediately before the closing quote), extract_string_value
\* stops at that closing quote: the value ends there and does not run on
\* into what follows the literal.
C16_EscapedBackslashEndsLiteral ==
    (/\ ex_call = "extract_string_value"
     /\ ExKeyFound
     /\ starts_with(ExValue, Q)
     /\ LiteralEnd(ExValue, 2) # 0
     /\ ExValue[LiteralEnd(ExValue, 2) - 1] = BS)
    => ex_out = Some(SubSeq(ExValue, 2, LiteralEnd(ExValue, 2) - 1))

OneByte(text) == \A n \in DOMAIN text : len_utf8(text[n]) = 1

\* C17: the splitter and the nested-object extractor count every '{' and
\* '}' as structural, those inside string literals included: the depth is
\* the balance of all the braces scanned, a span is yielded at each closing
\* brace that returns that balance to 0, and the nested object found ends
\* at the first such brace.
C17_BracesInStringsAreStructural ==
    /\ ex_call = "split_json_objects" =>
           /\ depth = Balance(ex_json, scan_i)
           /\ result.tag # "Panic" =>
                  Len(objects)
                      = Cardinality(Closings(Prefix(ex_json, scan_i)))
    /\ (/\ ex_call = "extract_nested_object"
        /\ ExKeyFound
        /\ starts_with(ExValue, "{")
        /\ ex_out.tag # "Panic") =>
           /\ ex_out = None <=> Closings(ExValue) = {}
           /\ (ex_out.tag = "Some" /\ OneByte(ex_out.val)) =>
                  ex_out.val = Prefix(ExValue, FirstClosing(ExValue))

\* Two objects, the first with an opening brace inside a string literal:
\* no span is yielded for either.
C17_Witness ==
    /\ ex_call = "split_json_objects"
    /\ ex_json = Obj(<<Member(K_m, StrLit(<<"{">>))>>) \o <<",">> \o Obj(<<>>)
    /\ result = Ok(<<>>)
    /\ depth = 1

\* No closing brace of text comes before its opening brace.
NeverBelowZero(text) == \A p \in 0..Len(text) : Balance(text, p) >= 0

\* C18: in split_json_objects the depth is never negative at any step of
\* the scan: a closing brace with no open object before it leaves the
\* depth at which later opening braces are recognised as it was, and the
\* well-formed top-level objects after it are yielded.
C18_DepthIsNeverNegative ==
    ex_call = "split_json_objects" =>
        /\ depth >= 0
        /\ (/\ result.tag = "Ok"
            /\ starts_with(ex_json, "}")
            /\ OneByte(ex_json)
            /\ NeverBelowZero(Tail(ex_json)))
           => result.val = TopLevelSpans(Tail(ex_json))

\* C19: extract_string_value returns a value only when the string literal
\* is terminated: when no quote that no backslash precedes follows the
\* opening quote before the end of the span, the result is not found.
C19_UnterminatedLiteralIsNotFound ==
    (/\ ex_call = "extract_string_value"
     /\ ExKeyFound
     /\ starts_with(ExValue, Q)
     /\ UnescapedQuotes = {})
    => ex_out = None

\* The scan taken step by step returns what split_json_objects returns.
ScanAgreesWithSplit ==
    (ex_call = "split_json_objects" /\ result # NotReturned)
        => result = split_json_objects(ex_json)

=============================================================================
